---- MODULE Spec2Model ----
(***************************************************************************)
(* A model of the channel-based variant of the LRU/TTU cache (cache.go,    *)
(* shard.go lines 133-173, element.go, option.go).                         *)
(*                                                                         *)
(* Callers run Add / Get / Remove / Purge.  Every shard operation runs     *)
(* under that shard's lock and is one atomic step; a key always maps to    *)
(* the same shard, so the shard maps together are one map key -> *Element  *)
(* (idx).  The goroutine listWorker is the only writer of the list c.l, of *)
(* Element.el and of c.len; Add, removeOldest and Purge read c.l without   *)
(* synchronisation, which is modelled as a read of the list between two    *)
(* worker steps.                                                           *)
(*                                                                         *)
(* container/list nodes are not named.  The only node of an Element that   *)
(* can ever be removed is the one Element.el points to, so a list entry is *)
(* [e, cur]: the Element it holds and whether it is the node Element.el    *)
(* points to.  Element.el is "nil", "linked" (points to a node of c.l) or  *)
(* "removed" (points to a node list.Remove has already unlinked).          *)
(*                                                                         *)
(* New leaves the channels nil; the first call of any operation runs       *)
(* lazyInit (once), which makes them and starts listWorker.  Stop closes   *)
(* the channel done; a close of a nil or of a closed channel panics, which *)
(* ends the program (fatal).                                               *)
(***************************************************************************)
EXTENDS Integers, Sequences, FiniteSets, TLC

\* ---- bounds of the model ------------------------------------------------
\* calls issued in one run of the LRU cache, and of the cache with a clock
MaxOps == 4
MaxOpsTTU == 3
\* calls issued in one run by concurrent callers: of the unbounded cache,
\* and of every cache when the question is whether the calls return
MaxOpsConc == 3
MaxOpsLive == 2
\* calls issued in one run of a cache that is stopped at some point
MaxOpsLife == 3
\* calls issued in one run of the cache of capacity 1 with channels of depth 1
MaxOpsSoft == 5
\* calls issued in one run of the cache under every configuration
MaxOpsCount == 3
\* largest capacity tried (WithCapacity)
MaxCap == 2
\* largest clock value
MaxTime == 2
\* Purge's local counter is kept up to this value; larger counts read as it
MaxCount == 3
\* largest capacity of frontCh and deleteCh tried (10000 in the source,
\* scaled down)
QueueCap == 3

\* keys are opaque and only compared for equality; NoKey is no key
Keys == {1, 2, 3, 4}
NoKey == 0
\* the goroutines that call the cache, and the one of a sequential program
Callers == {"p", "q"}
Solo == {"p"}
\* time-to-use and cool-off settings tried (0: disabled)
TTUs == {0, 1}
CoolOffs == {0, 1}

\* nil *Element
NoEl == 0

VARIABLES
    cap, ttu, coolOff,  \* Cache.cap, Cache.ttu, Cache.coolOff (set by New)
    qcap,               \* the capacity lazyInit gives frontCh and deleteCh
    done,               \* Cache.done: "nil", "open" or "closed"
    worker,             \* the goroutine listWorker: "none", "running", "stopped"
    fatal,              \* a panic has ended the program
    now,                \* the clock read by time.Now()
    idx,                \* shard.idx of all shards: key -> Element id or NoEl
    elems,              \* the Elements allocated so far (id = position)
    l,                  \* Cache.l, front first
    len,                \* Cache.len
    frontCh, deleteCh,  \* the two channels read by listWorker
    pc,                 \* each caller's position in its call
    key, el, old, cnt,  \* each caller's locals (cnt: Purge's `expired`)
    hist                \* the calls so far, in the order of their shard
                        \* step, each with what it saw and what it returned

vars == <<cap, ttu, coolOff, qcap, done, worker, fatal, now, idx, elems, l, len, frontCh, deleteCh,
          pc, key, el, old, cnt, hist>>

cfgVars == <<cap, ttu, coolOff, qcap>>
lifeVars == <<done, worker, fatal>>
listVars == <<l, len>>
chanVars == <<frontCh, deleteCh>>
localVars == <<key, el, old, cnt>>

\* ---- helpers ------------------------------------------------------------
\* list.Len()
ListLen == Len(l)

\* list.Back(): the Element held by the last node, NoEl for an empty list
Back == IF Len(l) = 0 THEN NoEl ELSE l[Len(l)].e

RECURSIVE SelectNot(_, _)
\* s without its entries equal to x
SelectNot(s, x) ==
    IF s = <<>> THEN <<>>
    ELSE IF Head(s) = x THEN SelectNot(Tail(s), x)
         ELSE <<Head(s)>> \o SelectNot(Tail(s), x)

\* list.PushFront(el) followed by el.el = <the new node>: the node el.el
\* pointed to before (if any) stays in the list but is no longer el's node
PushFrontList(e) ==
    <<[e |-> e, cur |-> TRUE]>> \o
    [i \in 1..Len(l) |-> IF l[i].e = e THEN [l[i] EXCEPT !.cur = FALSE] ELSE l[i]]

\* list.Remove(el.el): unlinks the node only while it is still in the list
RemoveList(e) == SelectNot(l, [e |-> e, cur |-> TRUE])

\* Cache.expired with Before taken as "not after": an entry expires at
\* lastUse + ttu already
expired_nonstrict(e) ==
    IF ttu = 0 THEN FALSE
    ELSE elems[e].lu + ttu <= now

\* Cache.expired
expired(e) ==
    IF ttu = 0 THEN FALSE
    ELSE elems[e].lu + ttu < now

\* Cache.Len: an atomic load of c.len
CacheLen == len

\* ---- initial state ------------------------------------------------------
Init ==
    /\ cap \in 0..MaxCap
    /\ ttu \in TTUs
    /\ coolOff \in CoolOffs
    /\ qcap \in 1..QueueCap
    /\ done = "nil"
    /\ worker = "none"
    /\ fatal = FALSE
    /\ now = 0
    /\ idx = [k \in Keys |-> NoEl]
    /\ elems = <<>>
    /\ l = <<>>
    /\ len = 0
    /\ frontCh = <<>>
    /\ deleteCh = <<>>
    /\ pc = [c \in Callers |-> "idle"]
    /\ key = [c \in Callers |-> NoKey]
    /\ el = [c \in Callers |-> NoEl]
    /\ old = [c \in Callers |-> NoEl]
    /\ cnt = [c \in Callers |-> 0]
    /\ hist = <<>>

\* ---- lifecycle ----------------------------------------------------------
\* lazyInit without its go c.listWorker()
lazyInit_noworker ==
    IF done = "nil"
    THEN done' = "open" /\ UNCHANGED <<worker, fatal>>
    ELSE UNCHANGED lifeVars

\* c.lazyInit(): initOnce.Do makes the channels and starts listWorker on the
\* first call only
lazyInit ==
    IF done = "nil"
    THEN done' = "open" /\ worker' = "running" /\ UNCHANGED fatal
    ELSE UNCHANGED lifeVars

\* ---- the clock ----------------------------------------------------------
Tick ==
    /\ now < MaxTime
    /\ now' = now + 1
    /\ UNCHANGED <<cfgVars, lifeVars, idx, elems, listVars, chanVars, pc, localVars, hist>>

\* ---- listWorker ---------------------------------------------------------
\* the evict case without its test of el.el
WorkerDelete_nocheck ==
    /\ worker = "running"
    /\ deleteCh # <<>>
    /\ LET e == Head(deleteCh) IN
       /\ deleteCh' = Tail(deleteCh)
       /\ l' = RemoveList(e)
       /\ elems' = [elems EXCEPT ![e].el = "removed"]
       /\ len' = len - 1
    /\ UNCHANGED <<cfgVars, lifeVars, now, idx, frontCh, pc, localVars, hist>>

\* case el := <-c.deleteCh
WorkerDelete ==
    /\ worker = "running"
    /\ deleteCh # <<>>
    /\ LET e == Head(deleteCh) IN
       /\ deleteCh' = Tail(deleteCh)
       /\ IF elems[e].el # "nil"
          THEN /\ l' = RemoveList(e)
               /\ elems' = [elems EXCEPT ![e].el = "removed"]
               /\ len' = len - 1
          ELSE UNCHANGED <<l, elems, len>>
    /\ UNCHANGED <<cfgVars, lifeVars, now, idx, frontCh, pc, localVars, hist>>

\* case el := <-c.frontCh
WorkerFront ==
    /\ worker = "running"
    /\ frontCh # <<>>
    /\ LET e == Head(frontCh) IN
       /\ frontCh' = Tail(frontCh)
       /\ l' = PushFrontList(e)
       /\ elems' = [elems EXCEPT ![e].el = "linked"]
       /\ len' = len + 1
    /\ UNCHANGED <<cfgVars, lifeVars, now, idx, deleteCh, pc, localVars, hist>>

\* case _, ok := <-c.done: if !ok { return }
WorkerDone ==
    /\ worker = "running"
    /\ done = "closed"
    /\ worker' = "stopped"
    /\ UNCHANGED <<cfgVars, done, fatal, now, idx, elems, listVars, chanVars,
                   pc, localVars, hist>>

listWorker == WorkerDelete \/ WorkerFront \/ WorkerDone

\* ---- what a caller step does to its own bookkeeping ---------------------
\* a call may start: the caller is between calls
CanCall(c, n) == pc[c] = "idle" /\ Len(hist) < n

\* Keys are interchangeable, so a key not used before is taken to be the
\* least unused one of K
UsedKeys == {hist[i].key : i \in 1..Len(hist)} \ {NoKey}
KeyChoice(K) == {k \in K : k <= Cardinality(UsedKeys) + 1}

\* both channels are empty
Drained == frontCh = <<>> /\ deleteCh = <<>>

\* returned values: dynamic type t, value v, and Get's second result ok
Pending == [t |-> "pending", v |-> 0, ok |-> FALSE]
NoValue == [t |-> "none", v |-> 0, ok |-> FALSE]
IntValue(n) == [t |-> "int", v |-> n, ok |-> FALSE]
Found(v) == [t |-> "val", v |-> v, ok |-> TRUE]
NotFound == [t |-> "nil", v |-> 0, ok |-> FALSE]
ElementPtr(e) == [t |-> "*Element", v |-> e, ok |-> FALSE]

\* a call, recorded at its first step (its shard step): what was called
\* and by whom; the index entry of the key as the step found it (found, and
\* the entry's value fval and last use flu); the clock, c.len and Drained
\* at that step.  Filled in later: the key a capacity eviction of this Add
\* deleted from the index (evict) and the Element it had read at the back
\* of the list (back), the number of index entries this Purge
\* deleted (removed), whether this Get submitted a promote message (front),
\* and the returned value (res).
Call(op, k, v, c) ==
    LET e == IF k = NoKey THEN NoEl ELSE idx[k] IN
    [op |-> op, key |-> k, val |-> v, by |-> c,
     found |-> e # NoEl,
     fval |-> IF e # NoEl THEN elems[e].val ELSE 0,
     flu |-> IF e # NoEl THEN elems[e].lu ELSE 0,
     now |-> now, len |-> len, quiet |-> Drained,
     evict |-> NoKey, back |-> NoEl, removed |-> 0, front |-> FALSE,
     res |-> Pending]

\* the caller's current (or last) call
Cur(c) == CHOOSE i \in 1..Len(hist) :
              /\ hist[i].by = c
              /\ \A j \in (i + 1)..Len(hist) : hist[j].by # c

\* the call goes on at p with locals k (key), e (el), o (old), n (cnt)
Goto(c, p, k, e, o, n) ==
    /\ pc' = [pc EXCEPT ![c] = p]
    /\ key' = [key EXCEPT ![c] = k]
    /\ el' = [el EXCEPT ![c] = e]
    /\ old' = [old EXCEPT ![c] = o]
    /\ cnt' = [cnt EXCEPT ![c] = n]

\* a call starts and goes on at p
Begin(c, call, p, k, e, o, n) ==
    /\ hist' = Append(hist, call)
    /\ Goto(c, p, k, e, o, n)

\* a call starts and returns r in its first step
Whole(c, call, r) ==
    /\ hist' = Append(hist, [call EXCEPT !.res = r])
    /\ UNCHANGED <<pc, localVars>>

\* the call returns r
Return(c, r) ==
    /\ hist' = [hist EXCEPT ![Cur(c)].res = r]
    /\ Goto(c, "idle", NoKey, NoEl, NoEl, 0)

\* the call returns r, having submitted a promote message
ReturnPromoted(c, r) ==
    /\ hist' = [hist EXCEPT ![Cur(c)] = [@ EXCEPT !.res = r, !.front = TRUE]]
    /\ Goto(c, "idle", NoKey, NoEl, NoEl, 0)

\* the value an Add stores: values are opaque, so every Add stores a value
\* of its own (the number of the Add)
NewValue == Len(elems) + 1

\* ---- shard (shard.go 133-173) -------------------------------------------
\* shard.get
shard_get(k) == idx[k]

\* shard.set that leaves the entry of a key already present in place
shard_set_ifabsent(k, v) ==
    /\ elems' = Append(elems, [key |-> k, val |-> v, lu |-> now, el |-> "nil"])
    /\ idx' = IF idx[k] = NoEl THEN [idx EXCEPT ![k] = Len(elems) + 1] ELSE idx

\* shard.set: a fresh Element replaces the key's entry
shard_set(k, v) ==
    /\ elems' = Append(elems, [key |-> k, val |-> v, lu |-> now, el |-> "nil"])
    /\ idx' = [idx EXCEPT ![k] = Len(elems) + 1]

\* shard.remove
shard_remove(k) == idx' = [idx EXCEPT ![k] = NoEl]

\* ---- Cache.Add ----------------------------------------------------------
\* el, old := c.shard(key).set(key, val)
AddSet(c, k, n) ==
    /\ CanCall(c, n)
    /\ shard_set(k, NewValue)
    /\ Begin(c, Call("Add", k, NewValue, c),
             IF idx[k] # NoEl THEN "AddDelete" ELSE "AddFront",
             k, Len(elems) + 1, idx[k], 0)
    /\ lazyInit
    /\ UNCHANGED <<cfgVars, now, listVars, chanVars>>

\* if old != nil { c.deleteCh <- old }
AddDelete(c) ==
    /\ pc[c] = "AddDelete"
    /\ Len(deleteCh) < qcap
    /\ deleteCh' = Append(deleteCh, old[c])
    /\ Goto(c, "AddFront", key[c], el[c], NoEl, 0)
    /\ UNCHANGED <<cfgVars, lifeVars, now, idx, elems, listVars, frontCh, hist>>

\* c.frontCh <- el
AddFront(c) ==
    /\ pc[c] = "AddFront"
    /\ Len(frontCh) < qcap
    /\ frontCh' = Append(frontCh, el[c])
    /\ Goto(c, "AddCheck", key[c], NoEl, NoEl, 0)
    /\ UNCHANGED <<cfgVars, lifeVars, now, idx, elems, listVars, deleteCh, hist>>

\* c.cap > 0 && c.l.Len() > c.cap
OverCapacity == cap > 0 /\ ListLen > cap

\* if c.cap > 0 && c.l.Len() > c.cap { c.removeOldest() }
AddCheck(c) ==
    /\ pc[c] = "AddCheck"
    /\ IF OverCapacity
       THEN Goto(c, "OldestBack", key[c], NoEl, NoEl, 0) /\ UNCHANGED hist
       ELSE Return(c, NoValue)
    /\ UNCHANGED <<cfgVars, lifeVars, now, idx, elems, listVars, chanVars>>

\* removeOldest: b := c.l.Back(); if b == nil { return }; el := b.Value
\* (removeOldest's el is kept in old, Remove's el in el)
OldestBack(c) ==
    /\ pc[c] = "OldestBack"
    /\ IF Back = NoEl
       THEN Return(c, NoValue)
       ELSE Goto(c, "OldestRemove", elems[Back].key, NoEl, Back, 0)
            /\ UNCHANGED hist
    /\ UNCHANGED <<cfgVars, lifeVars, now, idx, elems, listVars, chanVars>>

\* removeOldest: c.Remove(el.key), its shard step
OldestRemove(c) ==
    /\ pc[c] = "OldestRemove"
    /\ shard_remove(key[c])
    /\ IF idx[key[c]] # NoEl
       THEN /\ Goto(c, "OldestDelete", key[c], idx[key[c]], old[c], 0)
            /\ hist' = [hist EXCEPT ![Cur(c)].evict = key[c],
                                    ![Cur(c)].back = old[c]]
       ELSE Return(c, NoValue)
    /\ UNCHANGED <<cfgVars, lifeVars, now, elems, listVars, chanVars>>

\* removeOldest: c.Remove(el.key), its c.deleteCh <- el
OldestDelete(c) ==
    /\ pc[c] = "OldestDelete"
    /\ Len(deleteCh) < qcap
    /\ deleteCh' = Append(deleteCh, el[c])
    /\ Return(c, NoValue)
    /\ UNCHANGED <<cfgVars, lifeVars, now, idx, elems, listVars, frontCh>>

\* ---- Cache.Remove -------------------------------------------------------
\* what `return el` hands back: the *Element itself (a nil *Element for an
\* absent key), not el.val
RemoveResult(e) == ElementPtr(e)

\* el := c.shard(key).remove(key)
RemoveShard(c, k, n) ==
    /\ CanCall(c, n)
    /\ shard_remove(k)
    /\ IF idx[k] # NoEl
       THEN Begin(c, Call("Remove", k, 0, c), "RemoveDelete", k, idx[k], NoEl, 0)
       ELSE Whole(c, Call("Remove", k, 0, c), RemoveResult(NoEl))
    /\ lazyInit
    /\ UNCHANGED <<cfgVars, now, elems, listVars, chanVars>>

\* if el != nil { c.deleteCh <- el }; return el
RemoveDelete(c) ==
    /\ pc[c] = "RemoveDelete"
    /\ Len(deleteCh) < qcap
    /\ deleteCh' = Append(deleteCh, el[c])
    /\ Return(c, RemoveResult(el[c]))
    /\ UNCHANGED <<cfgVars, lifeVars, now, idx, elems, listVars, frontCh>>

\* ---- Cache.Get ----------------------------------------------------------
\* el != nil && !c.expired(el)
GetHit(k) == shard_get(k) # NoEl /\ ~expired(shard_get(k))

\* c.coolOff == 0 || time.Since(el.lu) > c.coolOff
Promotes(e) == coolOff = 0 \/ now - elems[e].lu > coolOff

\* return el.val, true
GetValue(e) == Found(elems[e].val)

\* what Get(k) returns: el.val, true on a hit, else nil, false
GetResult(k) == IF GetHit(k) THEN GetValue(shard_get(k)) ELSE NotFound

\* el := c.shard(key).get(key) and the tests on el
GetShard(c, k, n) ==
    /\ CanCall(c, n)
    /\ IF GetHit(k) /\ Promotes(shard_get(k))
       THEN Begin(c, Call("Get", k, 0, c), "GetFront", k, shard_get(k), NoEl, 0)
       ELSE Whole(c, Call("Get", k, 0, c), GetResult(k))
    /\ lazyInit
    /\ UNCHANGED <<cfgVars, now, idx, elems, listVars, chanVars>>

\* c.frontCh <- el; return el.val, true
GetFront(c) ==
    /\ pc[c] = "GetFront"
    /\ Len(frontCh) < qcap
    /\ frontCh' = Append(frontCh, el[c])
    /\ ReturnPromoted(c, GetValue(el[c]))
    /\ UNCHANGED <<cfgVars, lifeVars, now, idx, elems, listVars, deleteCh>>

\* ---- Cache.Purge --------------------------------------------------------
\* expired++, kept up to MaxCount
Incr(n) == IF n < MaxCount THEN n + 1 ELSE n

\* if c.l.Len() == 0 { return 0 }; if c.ttu != 0 { for ... }
PurgeStart(c, n) ==
    /\ CanCall(c, n)
    /\ IF ListLen = 0 \/ ttu = 0
       THEN Whole(c, Call("Purge", NoKey, 0, c), IntValue(0))
       ELSE Begin(c, Call("Purge", NoKey, 0, c), "PurgeBack", NoKey, NoEl, NoEl, 0)
    /\ lazyInit
    /\ UNCHANGED <<cfgVars, now, idx, elems, listVars, chanVars>>

\* b := c.l.Back(); break on b == nil and on !c.expired(el)
PurgeBack(c) ==
    /\ pc[c] = "PurgeBack"
    /\ IF Back = NoEl \/ ~expired(Back)
       THEN Return(c, IntValue(cnt[c]))
       ELSE Goto(c, "PurgeRemove", elems[Back].key, NoEl, NoEl, cnt[c])
            /\ UNCHANGED hist
    /\ UNCHANGED <<cfgVars, lifeVars, now, idx, elems, listVars, chanVars>>

\* el = c.shard(el.key).remove(el.key); without an el: expired++
PurgeRemove(c) ==
    /\ pc[c] = "PurgeRemove"
    /\ shard_remove(key[c])
    /\ IF idx[key[c]] # NoEl
       THEN /\ Goto(c, "PurgeDelete", key[c], idx[key[c]], NoEl, cnt[c])
            /\ hist' = [hist EXCEPT ![Cur(c)].removed = @ + 1]
       ELSE /\ Goto(c, "PurgeBack", NoKey, NoEl, NoEl, Incr(cnt[c]))
            /\ UNCHANGED hist
    /\ UNCHANGED <<cfgVars, lifeVars, now, elems, listVars, chanVars>>

\* c.deleteCh <- el; expired++
PurgeDelete(c) ==
    /\ pc[c] = "PurgeDelete"
    /\ Len(deleteCh) < qcap
    /\ deleteCh' = Append(deleteCh, el[c])
    /\ Goto(c, "PurgeBack", NoKey, NoEl, NoEl, Incr(cnt[c]))
    /\ UNCHANGED <<cfgVars, lifeVars, now, idx, elems, listVars, frontCh, hist>>

\* ---- Cache.Stop ---------------------------------------------------------
\* Cache.Stop: close(c.done); closing a nil channel (Stop before any other
\* call) or a closed one (a second Stop) panics
Stop(c, n) ==
    /\ CanCall(c, n)
    /\ IF done = "open"
       THEN /\ done' = "closed"
            /\ UNCHANGED <<worker, fatal>>
            /\ Whole(c, Call("Stop", NoKey, 0, c), NoValue)
       ELSE /\ fatal' = TRUE
            /\ UNCHANGED <<done, worker>>
            /\ Whole(c, Call("Stop", NoKey, 0, c), Pending)
    /\ UNCHANGED <<cfgVars, now, idx, elems, listVars, chanVars>>

\* ---- the callers --------------------------------------------------------
Add(c, K, n) ==
    \/ \E k \in KeyChoice(K) : AddSet(c, k, n)
    \/ AddDelete(c)
    \/ AddFront(c)
    \/ AddCheck(c)
    \/ OldestBack(c)
    \/ OldestRemove(c)
    \/ OldestDelete(c)

Remove(c, K, n) ==
    \/ \E k \in KeyChoice(K) : RemoveShard(c, k, n)
    \/ RemoveDelete(c)

Get(c, K, n) ==
    \/ \E k \in KeyChoice(K) : GetShard(c, k, n)
    \/ GetFront(c)

Purge(c, n) ==
    \/ PurgeStart(c, n)
    \/ PurgeBack(c)
    \/ PurgeRemove(c)
    \/ PurgeDelete(c)

\* ---- specifications -----------------------------------------------------
\* every operation, every configuration
Next ==
    \/ Tick
    \/ WorkerDelete
    \/ WorkerFront
    \/ \E c \in Solo : Add(c, Keys, MaxOps)
    \/ \E c \in Solo : Remove(c, Keys, MaxOps)
    \/ \E c \in Solo : Get(c, Keys, MaxOps)
    \/ \E c \in Solo : Purge(c, MaxOps)

Spec == Init /\ [][Next]_vars

\* the LRU cache: no time-to-use, no cool-off, so no clock and no Purge
InitLRU == Init /\ ttu = 0 /\ coolOff = 0 /\ qcap = QueueCap

NextLRU ==
    \/ WorkerDelete
    \/ WorkerFront
    \/ \E c \in Solo : Add(c, Keys, MaxOps)
    \/ \E c \in Solo : Remove(c, Keys, MaxOps)
    \/ \E c \in Solo : Get(c, Keys, MaxOps)

SpecLRU == InitLRU /\ [][NextLRU]_vars

\* the unbounded cache with a clock: Add, Get and Purge on two keys under
\* every time-to-use and cool-off; with cap = 0 Add never reaches
\* removeOldest
KeysTTU == {1, 2}

InitTTU == Init /\ cap = 0 /\ qcap = QueueCap

AddUnbounded(c, K, n) ==
    \/ \E k \in KeyChoice(K) : AddSet(c, k, n)
    \/ AddDelete(c)
    \/ AddFront(c)
    \/ AddCheck(c)

NextTTU ==
    \/ Tick
    \/ WorkerDelete
    \/ WorkerFront
    \/ \E c \in Solo : AddUnbounded(c, KeysTTU, MaxOpsTTU)
    \/ \E c \in Solo : Get(c, KeysTTU, MaxOpsTTU)
    \/ \E c \in Solo : Purge(c, MaxOpsTTU)

SpecTTU == InitTTU /\ [][NextTTU]_vars

\* concurrent callers of the unbounded cache without time-to-use: Add, Get
\* and Remove on two keys by two goroutines
KeysConc == {1, 2}

InitReg == Init /\ cap = 0 /\ ttu = 0 /\ coolOff = 0 /\ qcap = QueueCap

NextReg ==
    \/ WorkerDelete
    \/ WorkerFront
    \/ \E c \in Callers : AddUnbounded(c, KeysConc, MaxOpsConc)
    \/ \E c \in Callers : Remove(c, KeysConc, MaxOpsConc)
    \/ \E c \in Callers : Get(c, KeysConc, MaxOpsConc)

SpecReg == InitReg /\ [][NextReg]_vars

\* concurrent callers of an Active cache without capacity and with capacity
\* 1 (a larger one only makes the eviction rarer), with channels of every
\* depth.  The Go scheduler runs every goroutine that can take a
\* step, and select picks at random among its ready cases, so no step that
\* stays possible is put off for ever.  (A channel deeper than the number
\* of calls is never full.)
InitConc == Init /\ ttu = 0 /\ coolOff = 0 /\ cap <= 1 /\ qcap <= MaxOpsLive

\* the steps of a call after its first one
Continue(c) ==
    \/ AddDelete(c)
    \/ AddFront(c)
    \/ AddCheck(c)
    \/ OldestBack(c)
    \/ OldestRemove(c)
    \/ OldestDelete(c)
    \/ RemoveDelete(c)
    \/ GetFront(c)

NextConc ==
    \/ WorkerDelete
    \/ WorkerFront
    \/ \E c \in Callers : Add(c, KeysConc, MaxOpsLive)
    \/ \E c \in Callers : Remove(c, KeysConc, MaxOpsLive)
    \/ \E c \in Callers : Get(c, KeysConc, MaxOpsLive)

SpecConc ==
    /\ InitConc
    /\ [][NextConc]_vars
    /\ WF_vars(WorkerDelete)
    /\ WF_vars(WorkerFront)
    /\ \A c \in Callers : WF_vars(Continue(c))

\* the life of a cache: one caller of a cache without capacity and TTU, which
\* also calls Stop, at any point and any number of times.  listWorker's
\* select may take any ready case, so with done closed it may still receive
\* from a channel that holds a message.  A panic ends the program.
InitLife == Init /\ cap = 0 /\ ttu = 0 /\ coolOff = 0 /\ qcap = QueueCap

NextLife ==
    \/ ~fatal /\ WorkerDelete
    \/ ~fatal /\ WorkerFront
    \/ ~fatal /\ WorkerDone
    \/ ~fatal /\ \E c \in Solo : AddUnbounded(c, KeysConc, MaxOpsLife)
    \/ ~fatal /\ \E c \in Solo : Remove(c, KeysConc, MaxOpsLife)
    \/ ~fatal /\ \E c \in Solo : Get(c, KeysConc, MaxOpsLife)
    \/ ~fatal /\ \E c \in Solo : Stop(c, MaxOpsLife)

SpecLife == InitLife /\ [][NextLife]_vars

\* the smallest cache with a capacity: capacity 1, channels of depth 1, no
\* time-to-use, one caller
InitSoft == Init /\ cap = 1 /\ qcap = 1 /\ ttu = 0 /\ coolOff = 0

NextSoft ==
    \/ WorkerDelete
    \/ WorkerFront
    \/ \E c \in Solo : Add(c, Keys, MaxOpsSoft)
    \/ \E c \in Solo : Remove(c, Keys, MaxOpsSoft)
    \/ \E c \in Solo : Get(c, Keys, MaxOpsSoft)

SpecSoft == InitSoft /\ [][NextSoft]_vars

\* the unbounded cache with a clock, with listWorker and the caller scheduled
\* fairly: listWorker takes a message that waits in a channel, and a caller
\* in a call takes its next step
PurgeLoop(c) ==
    \/ PurgeBack(c)
    \/ PurgeRemove(c)
    \/ PurgeDelete(c)

SpecPurge ==
    /\ InitTTU
    /\ [][NextTTU]_vars
    /\ WF_vars(WorkerDelete)
    /\ WF_vars(WorkerFront)
    /\ \A c \in Solo : WF_vars(Continue(c)) /\ WF_vars(PurgeLoop(c))

\* every operation of one caller on two keys: the cache with capacity 0 or
\* 1 and no time-to-use, and the unbounded cache with a time-to-use (a
\* cool-off only holds promote messages back).  Without time-to-use no
\* operation reads the clock.
InitCount ==
    /\ Init
    /\ cap <= 1
    /\ ttu = 0 \/ cap = 0
    /\ coolOff = 0
    /\ qcap = QueueCap

NextCount ==
    \/ ttu > 0 /\ Tick
    \/ WorkerDelete
    \/ WorkerFront
    \/ \E c \in Solo : Add(c, KeysTTU, MaxOpsCount)
    \/ \E c \in Solo : Remove(c, KeysTTU, MaxOpsCount)
    \/ \E c \in Solo : Get(c, KeysTTU, MaxOpsCount)
    \/ \E c \in Solo : Purge(c, MaxOpsCount)

SpecCount == InitCount /\ [][NextCount]_vars

\* ---- vocabulary of the properties ---------------------------------------
Min(a, b) == IF a < b THEN a ELSE b

\* no call is in progress
Idle == \A c \in Callers : pc[c] = "idle"

\* no call is in progress and both channels are empty
Quiescent == Idle /\ Drained

\* all calls so far were made by one caller
OneCaller == \A i \in 1..Len(hist) : hist[i].by = hist[1].by

\* all calls so far are Adds of pairwise distinct keys
DistinctAdds ==
    \A i \in 1..Len(hist) :
        /\ hist[i].op = "Add"
        /\ \A j \in 1..(i - 1) : hist[j].key # hist[i].key

\* call i has returned
Returned(i) == hist[i].res # Pending

\* call i used key k: an Add of k, or a Get of k that hit
Uses(i, k) ==
    /\ hist[i].key = k
    /\ hist[i].op = "Add" \/ (hist[i].op = "Get" /\ hist[i].res.ok)

\* the number of the last call that used k (0: none)
LastUse(k) ==
    IF \E i \in 1..Len(hist) : Uses(i, k)
    THEN CHOOSE i \in 1..Len(hist) :
             Uses(i, k) /\ \A j \in (i + 1)..Len(hist) : ~Uses(j, k)
    ELSE 0

\* a cached value as Remove's doc promises it, and the nil interface
Value(v) == [t |-> "val", v |-> v, ok |-> FALSE]
NilValue == [t |-> "nil", v |-> 0, ok |-> FALSE]

\* ---- C1 -----------------------------------------------------------------
\* C1: capacity bound.  With capacity C > 0, after N Adds of pairwise
\* distinct keys and nothing else, once both channels are drained and no
\* call is in progress, Len() = min(N, C).
C1_CapacityBound ==
    (cap > 0 /\ DistinctAdds /\ Quiescent)
        => CacheLen = Min(Len(hist), cap)

\* ---- C2 -----------------------------------------------------------------
\* C2: LRU order on insert-only use.  With capacity C > 0, after C+1 Adds of
\* distinct keys k1..k(C+1) by one caller and a drain, Get(k1) returns
\* not-found and Get(k2)..Get(k(C+1)) return their values with found = true.
C2_LRUOrder ==
    (cap > 0 /\ DistinctAdds /\ OneCaller /\ Len(hist) = cap + 1 /\ Quiescent)
        => /\ GetResult(hist[1].key) = NotFound
           /\ \A i \in 2..(cap + 1) : GetResult(hist[i].key) = Found(hist[i].val)

\* ---- C3 -----------------------------------------------------------------
\* C3: a Get hit counts as a use.  With capacity C > 0 and no cool-off, when
\* the last use of k is a Get hit whose promote message was applied before
\* an Add of a new key began, and that Add's capacity eviction is the first
\* one since the Get (the index then holds at most C keys and the new one),
\* the eviction does not delete k while another key whose last use is older
\* is still in the index.
C3_GetHitIsUse ==
    \A c \in Callers :
        (pc[c] = "OldestRemove" /\ idx[key[c]] # NoEl /\ cap > 0 /\ coolOff = 0)
        => LET i == Cur(c)
               k == key[c]
               g == LastUse(k)
           IN  (/\ ~hist[i].found
                /\ Cardinality({o \in Keys : idx[o] # NoEl}) <= cap + 1
                /\ hist[i].quiet
                /\ g > 0
                /\ hist[g].op = "Get"
                /\ \A j \in (g + 1)..i : hist[j].evict = NoKey)
               => ~\E o \in Keys \ {k} : idx[o] # NoEl /\ LastUse(o) < g

\* ---- C4 -----------------------------------------------------------------
\* C4: overwrite is read-your-write.  With TTU = 0 and any capacity, when a
\* fresh cache sees Add(k, v1); Add(k, v2); Get(k) from one caller, the Get
\* returns (v2, true).
C4_ReadYourWrite ==
    (/\ ttu = 0
     /\ Len(hist) >= 3
     /\ hist[1].op = "Add" /\ hist[2].op = "Add" /\ hist[3].op = "Get"
     /\ hist[2].key = hist[1].key /\ hist[3].key = hist[1].key
     /\ hist[2].by = hist[1].by /\ hist[3].by = hist[1].by
     /\ Returned(3))
        => hist[3].res = Found(hist[2].val)

\* ---- C5 -----------------------------------------------------------------
\* C5: overwrite preserves the key count.  When Add(k, v2) follows Add(k, v1)
\* on a key still cached and begins with both channels drained, then once
\* the channels are drained again Len() is what it was as the second Add
\* began.
C5_OverwriteKeepsLen ==
    LET n == Len(hist) IN
    (/\ n >= 2
     /\ hist[n].op = "Add" /\ hist[n - 1].op = "Add"
     /\ hist[n].key = hist[n - 1].key
     /\ hist[n].found
     /\ hist[n].quiet
     /\ Quiescent)
        => CacheLen = hist[n].len

\* ---- C6 -----------------------------------------------------------------
\* a Purge that cannot return: its loop is at the back of the list, the back
\* entry is expired and its key is no longer in the index, and no message is
\* left that would unlink it
PurgeStuck ==
    \E c \in Callers :
        /\ pc[c] = "PurgeBack"
        /\ Drained
        /\ Back # NoEl
        /\ expired(Back)
        /\ idx[elems[Back].key] = NoEl

\* C6: TTU expiry scenario.  With ttu = T > 0: Add(k, v), then at once Get(k),
\* which hits; then, more than T later and with both channels drained,
\* Purge(): Purge returns, Get(k) now returns not-found and, once the
\* channels are drained, Len() = 0.
C6_TTUExpiry ==
    (/\ ttu > 0
     /\ OneCaller
     /\ Len(hist) = 3
     /\ hist[1].op = "Add" /\ hist[2].op = "Get" /\ hist[3].op = "Purge"
     /\ hist[2].key = hist[1].key
     /\ hist[2].now = hist[1].now
     /\ hist[3].now > hist[2].now + ttu
     /\ hist[3].quiet)
        => /\ hist[2].res \in {Pending, Found(hist[1].val)}
           /\ ~PurgeStuck
           /\ Quiescent => (GetResult(hist[1].key) = NotFound /\ CacheLen = 0)

\* ---- C7 -----------------------------------------------------------------
\* C7: Get(k) returns (v, true) exactly when its shard step found k in the
\* index with value v and the entry was not expired, where expired means
\* TTU > 0 and lastUse + TTU < now; otherwise it returns (nil, false).
C7_GetResult ==
    \A i \in 1..Len(hist) :
        (hist[i].op = "Get" /\ Returned(i))
        => hist[i].res =
               IF hist[i].found /\ ~(ttu > 0 /\ hist[i].flu + ttu < hist[i].now)
               THEN Found(hist[i].fval)
               ELSE NotFound

\* a Get that hit at the very end of its entry's time-to-use, and a later
\* Get of a key in the index that missed because the entry had expired
C7_Witness ==
    \E i, j \in 1..Len(hist) :
        /\ hist[i].op = "Get" /\ hist[i].res.ok
        /\ ttu > 0 /\ hist[i].flu + ttu = hist[i].now
        /\ hist[j].op = "Get" /\ Returned(j)
        /\ hist[j].found /\ ~hist[j].res.ok

\* ---- C8 -----------------------------------------------------------------
\* C8: Remove(k) returns the cached value itself: v when k was in the index
\* with value v, and then k is no longer in the index; nil when k was absent.
C8_RemoveReturnsValue ==
    \A i \in 1..Len(hist) :
        (hist[i].op = "Remove" /\ Returned(i))
        => /\ hist[i].res = IF hist[i].found THEN Value(hist[i].fval) ELSE NilValue
           /\ (i = Len(hist) /\ Idle) => idx[hist[i].key] = NoEl

\* ---- C9 -----------------------------------------------------------------
\* C9: Purge() returns the number of entries it deleted from the index.
C9_PurgeCount ==
    \A i \in 1..Len(hist) :
        (hist[i].op = "Purge" /\ Returned(i))
        => hist[i].res = IntValue(hist[i].removed)

\* ---- C10 ----------------------------------------------------------------
\* C10: on an unbounded cache without TTU used by one caller, Len() right
\* after the i-th Add of pairwise distinct keys is i.
C10_LenAfterAdd ==
    (cap = 0 /\ ttu = 0 /\ OneCaller /\ DistinctAdds /\ Idle)
        => CacheLen = Len(hist)

\* ---- C11 ----------------------------------------------------------------
\* the last Add or Remove of k among the calls 1..n (0: none)
LastWrite(k, n) ==
    LET W == {i \in 1..n : hist[i].key = k /\ hist[i].op \in {"Add", "Remove"}}
    IN  IF W = {} THEN 0 ELSE CHOOSE i \in W : \A j \in W : j <= i

\* k is cached with value v after the calls 1..n: the last write is an Add
Written(k, n) == LastWrite(k, n) > 0 /\ hist[LastWrite(k, n)].op = "Add"

\* C11: no lost entries in an unbounded cache.  With capacity 0 and TTU 0,
\* whatever the interleaving of the callers, the calls ordered by their
\* shard step behave as a register per key: a Get of k returns (v, true)
\* for the latest Add(k, v) before it that no Remove(k) follows, else
\* (nil, false); and the index holds k exactly when the latest Add or Remove
\* of k is an Add, with that Add's value.
C11_Register ==
    (cap = 0 /\ ttu = 0)
    => /\ \A i \in 1..Len(hist) :
              (hist[i].op = "Get" /\ Returned(i))
              => hist[i].res =
                     IF Written(hist[i].key, i - 1)
                     THEN Found(hist[LastWrite(hist[i].key, i - 1)].val)
                     ELSE NotFound
       /\ \A k \in Keys :
              IF Written(k, Len(hist))
              THEN /\ idx[k] # NoEl
                   /\ elems[idx[k]].val = hist[LastWrite(k, Len(hist))].val
              ELSE idx[k] = NoEl

\* a Get has returned the value of another goroutine's Add that has not
\* returned yet, and a Get after a Remove has returned (nil, false)
C11_Witness ==
    /\ cap = 0
    /\ Len(hist) >= 3
    /\ hist[1].op = "Add" /\ ~Returned(1)
    /\ hist[2].op = "Get" /\ hist[2].key = hist[1].key
    /\ hist[2].by # hist[1].by /\ hist[2].res = Found(hist[1].val)
    /\ hist[3].op = "Remove" /\ hist[3].key = hist[1].key
    /\ GetResult(hist[1].key) = NotFound

SameEntryHits(i, j) ==
    /\ hist[i].op = "Get" /\ hist[j].op = "Get"
    /\ hist[i].key = hist[j].key
    /\ hist[i].res.ok /\ hist[j].res.ok
    /\ hist[i].fval = hist[j].fval

\* C13: cool-off is a minimum interval between promotions of one entry.
\* With coolOff = D > 0, two promote messages submitted by Get hits on the
\* same entry are more than D apart in time.
C13_CoolOffInterval ==
    coolOff > 0
    => \A i, j \in 1..Len(hist) :
           (i < j /\ SameEntryHits(i, j) /\ hist[i].front /\ hist[j].front)
           => hist[j].now - hist[i].now > coolOff

\* ---- C14 ----------------------------------------------------------------
\* C14: a Get hit that the cool-off does not suppress refreshes lastUse.
\* With TTU = T > 0, after a Get hit at time t that submitted its promote
\* message, no Get of the same entry at a time <= t + T misses, and no Purge
\* deletes the entry from the index at a time <= t + T.
C14_GetRefreshes ==
    ttu > 0
    => \A i \in 1..Len(hist) :
           (hist[i].op = "Get" /\ hist[i].front)
           => /\ \A j \in (i + 1)..Len(hist) :
                     (/\ hist[j].op = "Get" /\ Returned(j)
                      /\ hist[j].key = hist[i].key
                      /\ hist[j].found /\ hist[j].fval = hist[i].fval
                      /\ hist[j].now <= hist[i].now + ttu)
                     => hist[j].res.ok
              /\ \A c \in Callers :
                     (/\ pc[c] = "PurgeDelete"
                      /\ elems[el[c]].val = hist[i].fval)
                     => now > hist[i].now + ttu

\* ---- C15 ----------------------------------------------------------------
\* C15: Stop is safely idempotent.  Whatever the state of the cache (never
\* used, Active, already Stopped), a call of Stop raises no fatal error: it
\* returns, and no panic ends the program.
C15_StopSafe ==
    /\ ~fatal
    /\ \A i \in 1..Len(hist) : hist[i].op = "Stop" => Returned(i)

\* ---- C16 ----------------------------------------------------------------
\* C16: Stop is terminal for ordering.  Once Stop has returned (done is
\* closed), no step changes the list or the counter c.len, and a stopped
\* listWorker is never running again.
C16_StopTerminal ==
    [][/\ done = "closed" => (l' = l /\ len' = len)
       /\ worker = "stopped" => worker' = "stopped"]_vars

\* ---- C17 ----------------------------------------------------------------
\* the keys held in the shard maps
Held == {k \in Keys : idx[k] # NoEl}

\* C17: capacity is a soft bound with bounded overshoot.  With capacity
\* C > 0 and channels of depth Q, after any calls of Add, Get and Remove by
\* one caller (each has returned), the shard maps hold at most C + Q keys.
C17_SoftBound ==
    (cap > 0 /\ OneCaller /\ Idle) => Cardinality(Held) <= cap + qcap

\* ---- C18 ----------------------------------------------------------------
\* the Elements that have a node in the list
Listed == {l[i].e : i \in 1..Len(l)}

\* C18: capacity eviction removes exactly the back entry.  The entry an
\* Add's eviction deletes from the index and submits as evict message is the
\* entry it read at the back of the list, and once that Add has returned and
\* the channels are drained the entry has no node in the list any more.
C18_EvictsBack ==
    /\ \A c \in Callers : pc[c] = "OldestDelete" => el[c] = old[c]
    /\ LET n == Len(hist) IN
       (/\ n > 0
        /\ hist[n].op = "Add"
        /\ hist[n].evict # NoKey
        /\ hist[n].quiet
        /\ Quiescent)
       => hist[n].back \notin Listed

\* ---- C19 ----------------------------------------------------------------
\* listWorker receives the promote message at the head of frontCh
Promote == frontCh # <<>> /\ frontCh' = Tail(frontCh)

\* C19: an applied promote counts only an entry that was not linked.  When
\* listWorker applies a promote message for an entry that is in the list,
\* the entry is at the front afterwards and neither c.len nor the number of
\* nodes of the list has changed.
C19_PromoteLinked ==
    [][(Promote /\ elems[Head(frontCh)].el = "linked")
       => /\ len' = len
          /\ Len(l') = Len(l)
          /\ l'[1].e = Head(frontCh)]_vars

\* ---- C20 ----------------------------------------------------------------
\* the number of nodes of the list that hold Element e
Nodes(e) == Cardinality({i \in 1..Len(l) : l[i].e = e})

\* C20: list and index agree at quiescence.  When both channels are empty
\* and no call is in progress, every entry of the index has exactly one node
\* in the list, and every node of the list holds an entry that is in the
\* index under its key.
C20_ListMatchesIndex ==
    Quiescent
    => /\ \A k \in Keys : idx[k] # NoEl => Nodes(idx[k]) = 1
       /\ \A i \in 1..Len(l) : idx[elems[l[i].e].key] = l[i].e

\* ---- C21 ----------------------------------------------------------------
\* C21: Purge removes only expired entries.  Every entry Purge deletes from
\* a shard map is expired (lastUse + TTU < now), also when the key was
\* overwritten by an Add and while messages to listWorker are pending.
C21_PurgeOnlyExpired ==
    \A c \in Callers : pc[c] = "PurgeDelete" => expired(el[c])

\* ---- C22 ----------------------------------------------------------------
\* the caller is inside Purge's loop
InPurge(c) == pc[c] \in {"PurgeBack", "PurgeRemove", "PurgeDelete"}

\* C22: Purge terminates.  With TTU > 0 and listWorker running and scheduled
\* fairly, every call of Purge eventually returns, whatever calls were made
\* before it.
C22_PurgeReturns ==
    \A c \in Callers : InPurge(c) ~> (pc[c] = "idle")

\* ---- C23 ----------------------------------------------------------------
\* the Elements a caller is about to send to deleteCh
Evicting ==
    {old[c] : c \in {d \in Callers : pc[d] = "AddDelete"}}
    \cup {el[c] : c \in {d \in Callers :
                          pc[d] \in {"OldestDelete", "RemoveDelete", "PurgeDelete"}}}

\* C23: the counter matches the list.  Between the steps of listWorker the
\* counter read by Len() is the number of nodes of the list and is not
\* negative; and an entry is submitted to deleteCh at most once: an entry
\* sent or about to be sent is in no shard map, it waits in deleteCh at
\* most once, and no evict message has been applied to it before.
C23_CounterMatchesList ==
    /\ CacheLen = ListLen
    /\ CacheLen >= 0
    /\ \A i \in 1..Len(deleteCh) :
           /\ elems[deleteCh[i]].el # "removed"
           /\ idx[elems[deleteCh[i]].key] # deleteCh[i]
           /\ deleteCh[i] \notin Evicting
           /\ \A j \in 1..Len(deleteCh) : deleteCh[j] = deleteCh[i] => j = i
    /\ \A e \in Evicting :
           elems[e].el # "removed" /\ idx[elems[e].key] # e

\* listWorker has applied an evict message to an entry that had two nodes,
\* and an evict message of an entry that had none yet; all is drained
C23_Witness ==
    /\ Quiescent
    /\ \E i \in 1..Len(l) : ~l[i].cur /\ elems[l[i].e].el = "removed"
    /\ \E i \in 1..Len(l) : l[i].cur /\ idx[elems[l[i].e].key] # l[i].e
====
